---- MODULE Spec2Model ----
(***************************************************************************)
(* Model of server.js: an Express application with three GET routes        *)
(* ("/", "/health", "/metrics"), a prom-client Registry carrying the       *)
(* default collectors, and a listener on port 3000.                        *)
(*                                                                         *)
(* The module body of server.js runs top to bottom once (pc walks lines    *)
(* 6, 9, 12, 17, 22, 27); afterwards the event loop serves requests.  A    *)
(* request is accepted, then routed through the router's stack in          *)
(* registration order; the /metrics handler suspends at its `await` and is *)
(* resumed when the promise of register.metrics() settles.                 *)
(***************************************************************************)
EXTENDS Integers, Sequences, FiniteSets, TLC

VARIABLES
    pc,          \* position of the module body / state of the process
    env,         \* value of the PORT environment variable, NoPort when unset
    portBusy,    \* ports some other process has already bound
    registries,  \* every prom-client Registry that exists, as its metric names
    register,    \* the registry the constant `register` holds (0: not yet)
    routes,      \* the router's stack, in registration order
    listenPort,  \* port the server listens on (NoPort: not listening)
    exitCode,    \* exit code of the process (Running while it has not exited)
    req          \* the requests, by arrival number

vars == <<pc, env, portBusy, registries, register, routes,
          listenPort, exitCode, req>>

-----------------------------------------------------------------------------
(* Bounds of the model *)

MaxReq == 2
MaxSample == 1

(* Program constants *)

DefaultPort == 3000
NoPort == 0
Running == -1
UncaughtExit == 1

(* the values the environment may give PORT: unset, or another port *)
EnvPorts == {NoPort, 8080}

Reqs == 1 .. MaxReq

(* characters are one-letter strings, a path is a sequence of them *)
RootPath == <<"/">>
HealthPath == <<"/", "h", "e", "a", "l", "t", "h">>
MetricsPath == <<"/", "m", "e", "t", "r", "i", "c", "s">>

Paths == { RootPath,
           <<"/", "/">>,
           HealthPath,
           <<"/", "H", "e", "a", "l", "t", "h", "/">>,
           MetricsPath,
           <<"/", "n", "o", "n", "e", "x", "i", "s", "t", "e", "n", "t">> }

(* the requests the environment sends: GET on every path, POST on "/"      *)
(* (app.get also serves HEAD; HEAD requests are not among the inputs)      *)
Requests == { <<"GET", p>> : p \in Paths } \cup { <<"POST", RootPath>> }

(* the text of line 13; its last character is the rocket emoji U+1F680,   *)
(* written here by its code point                                          *)
Greeting == "Hello from Node.js App U+1F680"
HtmlType == "text/html; charset=utf-8"
JsonType == "application/json; charset=utf-8"
ContentType == "text/plain; version=0.0.4; charset=utf-8"

(* the metrics collectDefaultMetrics registers, in registration order *)
DefaultMetrics == <<"process_cpu_seconds_total", "process_resident_memory_bytes">>

Samples == [ { DefaultMetrics[i] : i \in DOMAIN DefaultMetrics } -> 0 .. MaxSample ]

NoSample == <<>>

-----------------------------------------------------------------------------
(* Pure functions *)

UpperCase == <<"A","B","C","D","E","F","G","H","I","J","K","L","M",
               "N","O","P","Q","R","S","T","U","V","W","X","Y","Z">>
LowerCase == <<"a","b","c","d","e","f","g","h","i","j","k","l","m",
               "n","o","p","q","r","s","t","u","v","w","x","y","z">>

(* String.prototype.toLowerCase on the letters A to Z, as a table *)
LowerOf ==
    [ c \in { UpperCase[i] : i \in DOMAIN UpperCase } |->
        LowerCase[CHOOSE i \in DOMAIN UpperCase : UpperCase[i] = c] ]

LowerChar(c) == IF c \in DOMAIN LowerOf THEN LowerOf[c] ELSE c

Lower(p) == [ i \in DOMAIN p |-> LowerChar(p[i]) ]

(* a layer with end = false, as app.use adds: the path need only start    *)
(* with the route path                                                     *)
MatchPrefix(routePath, p) ==
    /\ Len(p) >= Len(routePath)
    /\ Lower(SubSeq(p, 1, Len(routePath))) = Lower(routePath)

(* The route's regular expression: the route path, then "/?" (or "?" when  *)
(* the route path already ends in "/"), anchored at both ends, flag i      *)
(* ("case sensitive routing" and "strict routing" are off by default).     *)
Match(routePath, p) ==
    IF routePath[Len(routePath)] = "/"
    THEN Lower(p) \in { Lower(routePath),
                        Lower(SubSeq(routePath, 1, Len(routePath) - 1)) }
    ELSE Lower(p) \in { Lower(routePath), Lower(routePath \o <<"/">>) }

(* the first layer of the stack whose path and method match, 0 when none *)
FirstMatch(stack, method, p) ==
    LET hits == { i \in DOMAIN stack :
                    /\ Match(stack[i].path, p)
                    /\ stack[i].method = method }
    IN  IF hits = {} THEN 0
        ELSE CHOOSE i \in hits : \A j \in hits : i <= j

HandlerFor(method, p) ==
    LET i == FirstMatch(routes, method, p)
    IN  IF i = 0 THEN "none" ELSE routes[i].handler

(* JSON.stringify of an object with the one field status *)
Stringify(obj) == "{\"status\":\"" \o obj.status \o "\"}"

(* register.metrics(): one sample line per metric, in registration order *)
RenderText(names, sample) ==
    [ i \in DOMAIN names |-> <<names[i], sample[names[i]]>> ]

(* what finalhandler writes for a request no layer matched *)
NotFoundBody(method, p) == <<"Cannot", method, p>>

-----------------------------------------------------------------------------
(* Requests *)

Idle == [ st |-> "idle", method |-> "", path |-> <<>>, handler |-> "none",
          status |-> 0, ctype |-> "", body |-> "", reg |-> 0,
          sample |-> NoSample, overlap |-> FALSE ]

InFlight == { r \in Reqs : req[r].st = "awaiting" }

Init ==
    /\ pc = "l6"
    /\ env \in EnvPorts
    /\ portBusy \in SUBSET {DefaultPort}
    /\ registries = << <<>> >>       \* prom-client's global default registry
    /\ register = 0
    /\ routes = <<>>
    /\ listenPort = NoPort
    /\ exitCode = Running
    /\ req = [ r \in Reqs |-> Idle ]

-----------------------------------------------------------------------------
(* The module body, lines 6 to 29 *)

(* const register = new client.Registry() *)
NewRegistry ==
    /\ pc = "l6"
    /\ registries' = Append(registries, <<>>)
    /\ register' = Len(registries) + 1
    /\ pc' = "l9"
    /\ UNCHANGED <<env, portBusy, routes, listenPort, exitCode, req>>

(* variant: collectDefaultMetrics() called without { register }, which     *)
(* registers the collectors on prom-client's global default registry       *)
CollectOnGlobal ==
    /\ pc = "l9"
    /\ registries' = [registries EXCEPT ![1] = @ \o DefaultMetrics]
    /\ pc' = "l12"
    /\ UNCHANGED <<env, portBusy, register, routes, listenPort,
                   exitCode, req>>

(* client.collectDefaultMetrics({ register }) *)
CollectDefaultMetrics ==
    /\ pc = "l9"
    /\ registries' = [registries EXCEPT ![register] = @ \o DefaultMetrics]
    /\ pc' = "l12"
    /\ UNCHANGED <<env, portBusy, register, routes, listenPort,
                   exitCode, req>>

(* app.get(path, handler) appends a layer to the router's stack *)
AddRoute(at, next, p, h) ==
    /\ pc = at
    /\ routes' = Append(routes, [method |-> "GET", path |-> p, handler |-> h])
    /\ pc' = next
    /\ UNCHANGED <<env, portBusy, registries, register, listenPort,
                   exitCode, req>>

GetRoot == AddRoute("l12", "l17", RootPath, "root")
GetHealth == AddRoute("l17", "l22", HealthPath, "health")
GetMetrics == AddRoute("l22", "l27", MetricsPath, "metrics")

(* variant: a listener whose bind error is swallowed *)
ListenIgnoringError ==
    /\ pc = "l27"
    /\ pc' = "serving"
    /\ listenPort' = DefaultPort
    /\ UNCHANGED <<env, portBusy, registries, register, routes,
                   exitCode, req>>

(* app.listen(3000, cb): a failed bind emits 'error' on a server with no   *)
(* 'error' listener, which is an uncaught exception                        *)
Listen ==
    /\ pc = "l27"
    /\ IF DefaultPort \in portBusy
       THEN /\ pc' = "exited"
            /\ exitCode' = UncaughtExit
            /\ UNCHANGED listenPort
       ELSE /\ pc' = "serving"
            /\ listenPort' = DefaultPort
            /\ UNCHANGED exitCode
    /\ UNCHANGED <<env, portBusy, registries, register, routes, req>>

-----------------------------------------------------------------------------
(* Serving *)

(* a connection is accepted and its request parsed; requests are numbered  *)
(* in arrival order                                                        *)
Accept(r) ==
    /\ pc = "serving"
    /\ req[r].st = "idle"
    /\ \A q \in Reqs : q < r => req[q].st # "idle"
    /\ \E mp \in Requests :
         req' = [req EXCEPT ![r] = [Idle EXCEPT !.st = "accepted",
                                                !.method = mp[1],
                                                !.path = mp[2]]]
    /\ UNCHANGED <<pc, env, portBusy, registries, register, routes,
                   listenPort, exitCode>>

(* the router has request r ready and its first matching layer is h *)
Routed(r, h) ==
    /\ pc = "serving"
    /\ req[r].st = "accepted"
    /\ HandlerFor(req[r].method, req[r].path) = h

(* request r with its response written and ended *)
Respond(r, h, code, type, text) ==
    [req[r] EXCEPT !.st = "responded", !.handler = h, !.status = code,
                   !.ctype = type, !.body = text]

(* a handler's response, with whether any render was awaited when it was   *)
(* written                                                                 *)
Handled(r, h, code, type, text) ==
    [Respond(r, h, code, type, text) EXCEPT !.overlap = (InFlight # {})]

(* no layer matched: finalhandler answers 404 *)
NotFound(r) ==
    /\ Routed(r, "none")
    /\ req' = [req EXCEPT ![r] =
                 Respond(r, "none", 404, HtmlType,
                         NotFoundBody(req[r].method, req[r].path))]
    /\ UNCHANGED <<pc, env, portBusy, registries, register, routes,
                   listenPort, exitCode>>

(* res.send(Greeting): a string body goes out as text/html *)
RootRoute(r) ==
    /\ Routed(r, "root")
    /\ req' = [req EXCEPT ![r] = Handled(r, "root", 200, HtmlType, Greeting)]
    /\ UNCHANGED <<pc, env, portBusy, registries, register, routes,
                   listenPort, exitCode>>

(* the /health handler answering with the given status field *)
HealthAnswer(r, status) ==
    /\ Routed(r, "health")
    /\ req' = [req EXCEPT ![r] =
                 Handled(r, "health", 200, JsonType,
                         Stringify([status |-> status]))]
    /\ UNCHANGED <<pc, env, portBusy, registries, register, routes,
                   listenPort, exitCode>>

(* variant: a handler that waits for a lock the render path holds *)
HealthWhenNoRender(r) ==
    /\ InFlight = {}
    /\ HealthAnswer(r, "UP")

(* variant: a handler whose status depends on the renders in flight *)
HealthReflectsLoad(r) ==
    HealthAnswer(r, IF InFlight = {} THEN "UP" ELSE "DEGRADED")

(* res.json({ status: "UP" }): the handler reads no state and no input *)
HealthRoute(r) == HealthAnswer(r, "UP")

(* the registry the /metrics handler renders *)
Rendered == register

(* res.set("Content-Type", register.contentType); register.metrics() is    *)
(* called, the collectors sample, and the handler suspends at the await    *)
MetricsRoute(r) ==
    /\ Routed(r, "metrics")
    /\ \E s \in Samples :
         req' = [req EXCEPT ![r] = [@ EXCEPT !.st = "awaiting",
                                             !.handler = "metrics",
                                             !.ctype = ContentType,
                                             !.reg = Rendered,
                                             !.sample = s]]
    /\ UNCHANGED <<pc, env, portBusy, registries, register, routes,
                   listenPort, exitCode>>

(* variant: res.end() without the rendered text *)
EndWithoutBody(r) ==
    [req[r] EXCEPT !.st = "responded", !.status = 200, !.body = <<>>]

(* res.end(text) with the text the promise resolved to *)
EndWith(r) ==
    [req[r] EXCEPT !.st = "responded", !.status = 200,
                   !.body = RenderText(registries[req[r].reg], req[r].sample)]

(* the promise of register.metrics() resolves and the handler resumes *)
RenderResolves(r) ==
    /\ pc = "serving"
    /\ req[r].st = "awaiting"
    /\ req' = [req EXCEPT ![r] = EndWith(r)]
    /\ UNCHANGED <<pc, env, portBusy, registries, register, routes,
                   listenPort, exitCode>>

(* The promise rejects: the async handler's own promise rejects, nothing   *)
(* handles it, and no response is written.  What the runtime then does     *)
(* with the unhandled rejection depends on its --unhandled-rejections     *)
(* mode: "throw" raises it as an uncaught exception and the process exits, *)
(* "warn" prints a warning and goes on.                                    *)
RenderRejects(r) ==
    /\ pc = "serving"
    /\ req[r].st = "awaiting"
    /\ req' = [req EXCEPT ![r] = [@ EXCEPT !.st = "rejected",
                                           !.sample = NoSample]]
    /\ \E mode \in {"throw", "warn"} :
         IF mode = "throw"
         THEN pc' = "exited" /\ exitCode' = UncaughtExit
         ELSE UNCHANGED <<pc, exitCode>>
    /\ UNCHANGED <<env, portBusy, registries, register, routes,
                   listenPort>>

-----------------------------------------------------------------------------

Next ==
    \/ NewRegistry
    \/ CollectDefaultMetrics
    \/ GetRoot
    \/ GetHealth
    \/ GetMetrics
    \/ Listen
    \/ \E r \in Reqs : Accept(r)
    \/ \E r \in Reqs : NotFound(r)
    \/ \E r \in Reqs : RootRoute(r)
    \/ \E r \in Reqs : HealthRoute(r)
    \/ \E r \in Reqs : MetricsRoute(r)
    \/ \E r \in Reqs : RenderResolves(r)
    \/ \E r \in Reqs : RenderRejects(r)

Spec == Init /\ [][Next]_vars

(* one turn of the event loop: a ready handler runs, or a pending promise   *)
(* of register.metrics() settles                                           *)
Turn ==
    \E r \in Reqs :
        \/ NotFound(r)
        \/ RootRoute(r)
        \/ HealthRoute(r)
        \/ MetricsRoute(r)
        \/ RenderResolves(r)
        \/ RenderRejects(r)

(* the event loop never idles while a handler is ready or a promise is     *)
(* pending                                                                 *)
FairSpec == Spec /\ WF_vars(Turn)

-----------------------------------------------------------------------------
(* Properties *)

Dispatched(r) == req[r].st \notin {"idle", "accepted"}

ExactPaths == {RootPath, HealthPath, MetricsPath}

(* the paths the three routes accept, in lower case *)
RoutedPaths == ExactPaths \cup {HealthPath \o <<"/">>, MetricsPath \o <<"/">>}

UpBody == "{\"status\":\"UP\"}"

(* C1: a /metrics request whose render fails is answered with a 500, and   *)
(* the process keeps serving.                                              *)
C1_RenderFailureAnswered500 ==
    \A r \in Reqs :
        req[r].st = "rejected" =>
            /\ req[r].status = 500
            /\ pc = "serving"
            /\ exitCode = Running

(* C2: every GET /health that has been handled was answered 200 with the   *)
(* body {"status":"UP"}, whatever was handled before it and whatever       *)
(* renders were in flight.                                                 *)
C2_HealthAlwaysUp ==
    \A r \in Reqs :
        (req[r].method = "GET" /\ req[r].path = HealthPath /\ Dispatched(r)) =>
            /\ req[r].st = "responded"
            /\ req[r].handler = "health"
            /\ req[r].status = 200
            /\ req[r].body = UpBody

C2_Witness ==
    \E r, q \in Reqs :
        /\ req[q].st = "awaiting"
        /\ q < r
        /\ req[r].st = "responded"
        /\ req[r].method = "GET"
        /\ req[r].path = HealthPath
        /\ req[r].overlap

(* C3: a /metrics request whose render succeeded was answered 200, with    *)
(* the registry's content type, and with the text that rendering the       *)
(* process-wide registry produced from the samples taken for that request. *)
C3_MetricsResponse ==
    \A r \in Reqs :
        (req[r].handler = "metrics" /\ req[r].st = "responded") =>
            /\ req[r].status = 200
            /\ req[r].ctype = ContentType
            /\ req[r].body =
                 [ i \in DOMAIN DefaultMetrics |->
                     <<DefaultMetrics[i], req[r].sample[DefaultMetrics[i]]>> ]
            /\ req[r].body = RenderText(registries[register], req[r].sample)

C3_Witness ==
    \E r \in Reqs :
        /\ req[r].handler = "metrics"
        /\ req[r].st = "responded"
        /\ req[r].body # <<>>
        /\ \E n \in DOMAIN req[r].sample : req[r].sample[n] # 0

(* C5 as stated: a request whose path is none of the strings "/",          *)
(* "/health", "/metrics" gets 404 with no handler run, and GET on one of   *)
(* them never gets 404.                                                    *)
C5_ExactPathsOnly ==
    \A r \in Reqs :
        /\ (Dispatched(r) /\ req[r].path \notin ExactPaths) =>
              /\ req[r].st = "responded"
              /\ req[r].status = 404
              /\ req[r].handler = "none"
        /\ (Dispatched(r) /\ req[r].method = "GET" /\ req[r].path \in ExactPaths) =>
              /\ req[r].status # 404
              /\ req[r].handler # "none"

(* C5 amended: paths are compared without regard to case and with one      *)
(* optional trailing slash after /health and /metrics; a request whose     *)
(* path is then none of the three gets 404 with no handler run, and GET on *)
(* a path that is one of them never gets 404.                              *)
C5_UnroutedPaths404 ==
    \A r \in Reqs :
        /\ (Dispatched(r) /\ Lower(req[r].path) \notin RoutedPaths) =>
              /\ req[r].st = "responded"
              /\ req[r].status = 404
              /\ req[r].handler = "none"
        /\ (Dispatched(r) /\ req[r].method = "GET"
                          /\ Lower(req[r].path) \in RoutedPaths) =>
              /\ req[r].status # 404
              /\ req[r].handler # "none"

C5_Witness ==
    \E r, q \in Reqs :
        /\ req[r].st = "responded"
        /\ req[r].path \notin ExactPaths
        /\ Lower(req[r].path) \notin RoutedPaths
        /\ req[r].status = 404
        /\ req[q].st = "responded"
        /\ req[q].path \notin ExactPaths
        /\ Lower(req[q].path) \in RoutedPaths
        /\ req[q].status = 200

(* C6: when the bind of the listening port fails, the process never        *)
(* serves, handles no request, and its exit code is not zero.              *)
C6_BindFailureFatal ==
    DefaultPort \in portBusy =>
        /\ pc # "serving"
        /\ listenPort = NoPort
        /\ \A r \in Reqs : req[r].st = "idle"
        /\ (pc = "exited" => exitCode \notin {0, Running})
        /\ (exitCode = Running => pc \in {"l6", "l9", "l12", "l17", "l22", "l27"})

C6_Witness ==
    /\ DefaultPort \in portBusy
    /\ pc = "exited"
    /\ exitCode = UncaughtExit

(* C7: the server listens on the value of PORT when it is set, and on 3000 *)
(* when it is not.                                                         *)
C7_PortFromEnvironment ==
    pc = "serving" =>
        listenPort = (IF env # NoPort THEN env ELSE DefaultPort)

(* C8: every accepted request eventually has its response written.         *)
C8_EveryRequestAnswered ==
    \A r \in Reqs : (req[r].st = "accepted") ~> (req[r].st = "responded")

(* C9: a request routed to the / or /health handler can be handled at once *)
(* however many /metrics requests are awaiting their render.               *)
C9_SyncRoutesNotSerialized ==
    \A r \in Reqs :
        /\ Routed(r, "root") => ENABLED RootRoute(r)
        /\ Routed(r, "health") => ENABLED HealthRoute(r)

C9_Witness ==
    \E r, q \in Reqs :
        /\ req[q].st = "awaiting"
        /\ req[r].st = "responded"
        /\ req[r].handler \in {"root", "health"}
        /\ req[r].overlap

(* C10: one registry is created, once, and carries the default collectors  *)
(* before any request is accepted; every /metrics request renders it.      *)
C10_SingleRegistry ==
    /\ Len(registries) <= 2
    /\ (pc # "l6" => (Len(registries) = 2 /\ register = 2))
    /\ (pc \notin {"l6", "l9"} => registries[register] = DefaultMetrics)
    /\ \A r \in Reqs :
         /\ req[r].st # "idle" =>
               (register # 0 /\ registries[register] = DefaultMetrics)
         /\ req[r].handler = "metrics" => req[r].reg = register

C10_Witness ==
    \E r, q \in Reqs :
        /\ r # q
        /\ req[r].handler = "metrics"
        /\ req[q].handler = "metrics"
        /\ req[r].st = "responded"
        /\ req[r].reg = register
        /\ req[q].reg = register
        /\ registries[register] = DefaultMetrics

====
